---------------------------- MODULE Spec2Model ----------------------------
(***************************************************************************)
(* A model of the comic scraper (src/src/comic_scraper.py,                 *)
(* src/src/services/cloudinary_service.py, src/src/models/comic.py).       *)
(*                                                                         *)
(* The module holds several specifications over one set of variables:      *)
(*   SpecFetch     one call of fetch_data_with_retry                       *)
(*   SpecCover     handle_cover_image called in sequence, each call with   *)
(*                 its download_image                                      *)
(*   SpecFilter    the start filter of main on a chapter list              *)
(*   Spec          main from the prompt for the starting chapter on: the   *)
(*                 filters, the tasks behind the semaphore, each chapter   *)
(*                 pipeline with its downloads                             *)
(*   SpecLive      Spec for the run that starts at the second chapter,     *)
(*                 with the fairness of the event loop                     *)
(*   SpecSave      save_comic_metadata called in sequence                  *)
(*   SpecMain      main from its start to the tasks: the comic's page,     *)
(*                 the metadata and the cover, the prompt, the metadata    *)
(*                 store, the filters                                      *)
(* Each one leaves the variables of the others at their idle values.       *)
(*                                                                         *)
(* Numbers: a chapter number is kept in tenths (2.5 is 25), a duration in  *)
(* seconds.  Text (a folder key, a public id) is a sequence of one-        *)
(* character or one-word strings, so that "is a prefix of" is the prefix   *)
(* of the text.                                                            *)
(***************************************************************************)
EXTENDS Integers, Sequences, FiniteSets, TLC

VARIABLES
    fetch,      \* the state of one fetch_data_with_retry call
    filt,       \* the start filter: a chapter list, a start, the result
    store,      \* the asset store: the public ids it holds
    upcount,    \* history: public id -> number of uploads of it in this run
    reup,       \* history: public ids uploaded while the store held them
    cov,        \* handle_cover_image: the calls made so far
    cdl,        \* the download_image call of the cover in progress
    dlog,       \* history: the events of that download_image call
    main,       \* main: where it is, the start it was given, its tasks
    sem,        \* the semaphore's value
    pipes,      \* the chapter pipelines, one per task
    progress,   \* the progress bar's count
    db          \* the metadata store: its rows, its sessions, the last call

vars == <<fetch, filt, store, upcount, reup, cov, cdl, dlog, main, sem,
          pipes, progress, db>>
fetchVars == <<fetch, filt>>
storeVars == <<store, upcount, reup>>
metaVars == <<db>>
coverVars == <<cov, cdl, dlog>>
runVars == <<main, sem, pipes, progress>>

---------------------------------------------------------------------------
(* Program constants, comic_scraper.py lines 26-28.                        *)
MAX_CONCURRENT_DOWNLOADS == 3
MAX_RETRIES == 3
RETRY_DELAY == 2

---------------------------------------------------------------------------
(* fetch_data_with_retry, comic_scraper.py lines 39-54.                    *)
(*                                                                         *)
(* A response to session.get is a body (2xx, text read) or an error:       *)
(* raise_for_status on a non-2xx status, or the transport failing.  Every  *)
(* one of them is an Exception, which line 48 catches.                     *)

Bodies == {"page_a", "page_b"}
FetchErrors == {"http_error", "conn_error", "timeout"}
FetchResponses ==
    [ok : {TRUE}, val : Bodies] \cup [ok : {FALSE}, val : FetchErrors]

\* line 52, with the exponent dropped: the same delay before every retry
wait_time_fixed(attempt) == RETRY_DELAY

\* line 52: wait_time = RETRY_DELAY * (2 ** attempt)
wait_time(attempt) == RETRY_DELAY * (2 ^ attempt)

\* line 49, off by one: the last attempt is never recognised
is_last_attempt_late(attempt, max_retries) == attempt = max_retries

\* line 49: attempt == max_retries - 1
is_last_attempt(attempt, max_retries) == attempt = max_retries - 1

FetchIdle ==
    [pc |-> "idle", attempt |-> 0, max_retries |-> 0, requests |-> 0,
     sleeps |-> <<>>, log |-> <<>>, result |-> "none"]

\* line 41 and 43-45: the loop takes its next attempt index and issues the
\* GET, or is exhausted and the function falls off its end (returns None).
FetchLoop(f, attempt) ==
    IF attempt < f.max_retries
    THEN [f EXCEPT !.pc = "get", !.attempt = attempt,
                   !.requests = f.requests + 1]
    ELSE [f EXCEPT !.pc = "returned", !.result = "none"]

\* The call: max_retries is the parameter (default MAX_RETRIES).
FetchCall ==
    /\ fetch.pc = "idle"
    /\ \E m \in 1..MAX_RETRIES :
          fetch' = FetchLoop([fetch EXCEPT !.max_retries = m], 0)

\* lines 45-54: the response of the attempt in flight arrives.
FetchRespond ==
    /\ fetch.pc = "get"
    /\ \E r \in FetchResponses :
          LET f == [fetch EXCEPT !.log = Append(fetch.log, r)] IN
          fetch' =
            IF r.ok
            THEN [f EXCEPT !.pc = "returned", !.result = r.val]
            ELSE IF is_last_attempt(f.attempt, f.max_retries)
                 THEN [f EXCEPT !.pc = "raised", !.result = r.val]
                 ELSE [f EXCEPT !.pc = "sleep",
                                !.sleeps = Append(f.sleeps,
                                                  wait_time(f.attempt))]

\* line 54 returns: the sleep is over, the loop goes on.
FetchWake ==
    /\ fetch.pc = "sleep"
    /\ fetch' = FetchLoop(fetch, fetch.attempt + 1)

---------------------------------------------------------------------------
(* Text: folder keys and public ids.                                       *)

Slug == <<"alpha">>

IsPrefix(p, s) == Len(p) <= Len(s) /\ SubSeq(s, 1, Len(p)) = p

\* The public id Cloudinary gives an upload with folder=folder,
\* public_id=filename (cloudinary_service.py line 28)
PublicId(folder, filename) == folder \o <<"/">> \o filename

\* comic_scraper.py lines 96-97: the cover's folder and file name
CoverFolder(comic_slug) == comic_slug
CoverFilename == <<"cover">>

\* comic_scraper.py line 99 (and 218): f"{comic_slug}/chapter-{chapter}"
ChapterFolder(comic_slug, chapter) == comic_slug \o <<"/", "chapter-">> \o chapter

---------------------------------------------------------------------------
(* The asset store, cloudinary_service.py.                                 *)

\* api.resources(type="upload", prefix=prefix, max_results=1), lines 58, 75
resources(prefix, st) == {p \in st : IsPrefix(prefix, p)}

\* folder_exists, lines 49-63.  api_ok = FALSE: the query raised, and the
\* except branch answers False.
folder_exists(folder_path, st, api_ok) ==
    api_ok /\ resources(folder_path, st) # {}

\* file_exists without the "/" between folder and file name
file_exists_noslash(folder, filename, st, api_ok) ==
    api_ok /\ resources(folder \o filename, st) # {}

\* file_exists, lines 65-80: the prefix is f"{folder}/{filename}"
file_exists(folder, filename, st, api_ok) ==
    api_ok /\ resources(PublicId(folder, filename), st) # {}

Bump(count, id) ==
    IF id \in DOMAIN count THEN [count EXCEPT ![id] = @ + 1]
                           ELSE count @@ (id :> 1)

\* upload_image, lines 18-32, succeeding: the store holds the public id
\* (unique_filename=False: a second upload of the id replaces the first).
StoreUpload(id) ==
    /\ store' = store \cup {id}
    /\ upcount' = Bump(upcount, id)
    /\ reup' = IF id \in store THEN reup \cup {id} ELSE reup

---------------------------------------------------------------------------
(* download_image with its rate_limited wrapper, comic_scraper.py          *)
(* lines 65-114.                                                           *)
(*                                                                         *)
(* A call is suspended at: the wrapper's sleep (line 68), the GET (line    *)
(* 85, with the read of the body, line 93), the Retry-After sleep (line    *)
(* 89) and the back-off sleep (line 114).  upload_image is a blocking      *)
(* call: it runs in the step that receives the 2xx response.               *)

MIN_DELAY == 2
MAX_DELAY == 5
DEFAULT_RETRIES == 3
DEFAULT_RETRY_AFTER == 60

\* A response carries no Retry-After header
NoHeader == -1
RetryAfterHeaders == {NoHeader, 5}

\* "ok": a 2xx status whose body is read; "429"; "error": an
\* aiohttp.ClientError (the transport failing, or raise_for_status on
\* another non-2xx status).
ImageResponses ==
    [kind : {"ok", "error"}, retry_after : {NoHeader}]
        \cup [kind : {"429"}, retry_after : RetryAfterHeaders]

\* line 87: int(response.headers.get('Retry-After', 60))
retry_after_wait(header) ==
    IF header = NoHeader THEN DEFAULT_RETRY_AFTER ELSE header

\* line 114: 2 ** attempt
backoff_wait(attempt) == 2 ^ attempt

DlIdle ==
    [pc |-> "idle", attempt |-> 0, retries |-> 0, is_cover |-> FALSE,
     chapter |-> <<>>, comic_slug |-> <<>>, file |-> <<>>,
     ret |-> "none", url |-> <<>>]

\* lines 95-102: where the image goes; <<>> is the ValueError of line 102
DlTarget(d) ==
    IF d.is_cover THEN PublicId(CoverFolder(d.comic_slug), CoverFilename)
    ELSE IF d.chapter # <<>>
         THEN PublicId(ChapterFolder(d.comic_slug, d.chapter), d.file)
         ELSE <<>>

\* the loop head with the wrapper's sleep forgotten on the way in: the
\* call starts with the GET already sent
DlBeginNoSleep(comic_slug, chapter, is_cover, file) ==
    [DlIdle EXCEPT !.pc = "get", !.retries = DEFAULT_RETRIES,
                   !.comic_slug = comic_slug, !.chapter = chapter,
                   !.is_cover = is_cover, !.file = file]

\* lines 65-71: the wrapper is entered and sleeps once; file is the name
\* line 100 takes from the url.
DlBegin(comic_slug, chapter, is_cover, file) ==
    [DlIdle EXCEPT !.pc = "rate_sleep", !.retries = DEFAULT_RETRIES,
                   !.comic_slug = comic_slug, !.chapter = chapter,
                   !.is_cover = is_cover, !.file = file]

\* line 83 and 85: the loop takes its next attempt and sends the GET, or
\* is exhausted and the function falls off its end (returns None).
DlLoop(d, attempt) ==
    IF attempt < d.retries
    THEN [d EXCEPT !.pc = "get", !.attempt = attempt]
    ELSE [d EXCEPT !.pc = "returned", !.ret = "none"]

\* line 69: the wrapper's sleep is over, download_image itself starts
DlRateWake(d) == DlLoop(d, 0)

\* lines 89-90 and 114: a sleep inside the loop is over ("continue", or
\* the end of the except branch): the next attempt.
DlWake(d) == DlLoop(d, d.attempt + 1)

\* lines 85-114: the response of the attempt in flight; up_ok says whether
\* upload_image (line 104) returns a result.
DlRespond(d, r, up_ok) ==
    CASE r.kind = "429" -> [d EXCEPT !.pc = "retry_after_sleep"]
      [] r.kind = "ok" ->
            IF DlTarget(d) = <<>>
            THEN [d EXCEPT !.pc = "raised", !.ret = "ValueError"]
            ELSE IF up_ok
                 THEN [d EXCEPT !.pc = "returned", !.ret = "url",
                                !.url = DlTarget(d)]
                 ELSE [d EXCEPT !.pc = "returned", !.ret = "empty"]
      [] OTHER ->
            IF d.attempt = d.retries - 1
            THEN [d EXCEPT !.pc = "raised", !.ret = "ClientError"]
            ELSE [d EXCEPT !.pc = "backoff_sleep"]

\* Whether the step above uploads (line 104 is reached and succeeds)
DlUploads(d, r, up_ok) == r.kind = "ok" /\ DlTarget(d) # <<>> /\ up_ok

DlDone(d) == d.pc \in {"returned", "raised"}

\* History: what a response adds to the log of a download_image call.
Ev(e, secs) == [e |-> e, secs |-> secs]

DlRespondEvents(d, r, up_ok) ==
    CASE r.kind = "429" ->
            <<Ev("429", 0), Ev("retry_after_sleep", retry_after_wait(r.retry_after))>>
      [] r.kind = "ok" ->
            IF DlTarget(d) = <<>> THEN <<Ev("ok", 0)>>
            ELSE IF up_ok THEN <<Ev("ok", 0), Ev("upload", 0)>>
                          ELSE <<Ev("ok", 0), Ev("upload_failed", 0)>>
      [] OTHER ->
            IF d.attempt = d.retries - 1 THEN <<Ev("error", 0)>>
            ELSE <<Ev("error", 0), Ev("backoff_sleep", backoff_wait(d.attempt))>>

\* What a call that goes on to pc adds: the GET it sends
DlGetEvents(d) == IF d.pc = "get" THEN <<Ev("get", 0)>> ELSE <<>>

---------------------------------------------------------------------------
(* handle_cover_image, comic_scraper.py lines 177-187, called MaxCoverCalls *)
(* times in sequence with the same comic slug.                             *)

MaxCoverCalls == 2

CoverId == PublicId(CoverFolder(Slug), CoverFilename)

CovIdle == [pc |-> "idle", calls |-> <<>>]

\* One record per call: api_ok says whether the existence query answered
\* (it did not raise), found is the answer of file_exists; ret is what
\* the call returned ("url": a reference, "none": None, "raised": the
\* exception of download_image went through it); gets and uploads count
\* the GET requests it sent and the uploads it made.
CovCall(api_ok, found, ret) ==
    [api_ok |-> api_ok, found |-> found, ret |-> ret, gets |-> 0,
     uploads |-> 0]

\* lines 181-187: the value handle_cover_image makes of download_image's
CoverReturn(d) ==
    IF d.pc = "raised" THEN "raised"
    ELSE IF d.ret = "url" THEN "url" ELSE "none"

\* the call in progress after a step of its download_image
CovAfter(c, d, gets, uploads) ==
    LET n == Len(c.calls)
        call == [c.calls[n] EXCEPT !.gets = @ + gets, !.uploads = @ + uploads,
                                   !.ret = IF DlDone(d) THEN CoverReturn(d)
                                                        ELSE @]
    IN [pc |-> IF DlDone(d) THEN "idle" ELSE "downloading",
        calls |-> [c.calls EXCEPT ![n] = call]]

\* lines 178-181: the existence check, then either the early return or the
\* call of download_image, which suspends in the wrapper's sleep.
CoverCall ==
    /\ cov.pc = "idle"
    /\ Len(cov.calls) < MaxCoverCalls
    /\ \E api_ok \in BOOLEAN :
          IF file_exists(Slug, CoverFilename, store, api_ok)
          THEN /\ cov' = [cov EXCEPT !.calls = Append(@, CovCall(api_ok, TRUE, "none"))]
               /\ UNCHANGED <<cdl, dlog>>
          ELSE /\ cov' = [pc |-> "downloading",
                          calls |-> Append(cov.calls,
                                          CovCall(api_ok, FALSE, "pending"))]
               /\ cdl' = DlBegin(Slug, <<>>, TRUE, <<>>)
               /\ \E secs \in MIN_DELAY..MAX_DELAY :
                     dlog' = IF cdl'.pc = "rate_sleep"
                             THEN <<Ev("rate_sleep", secs)>>
                             ELSE DlGetEvents(cdl')
    /\ UNCHANGED <<fetchVars, storeVars, runVars, metaVars>>

\* line 68 is over: the first attempt is sent.
CoverRateWake ==
    /\ cov.pc = "downloading"
    /\ cdl.pc = "rate_sleep"
    /\ cdl' = DlRateWake(cdl)
    /\ dlog' = dlog \o DlGetEvents(cdl')
    /\ cov' = CovAfter(cov, cdl', Len(DlGetEvents(cdl')), 0)
    /\ UNCHANGED <<fetchVars, storeVars, runVars, metaVars>>

\* lines 85-114: a response, with the upload and the return to
\* handle_cover_image (lines 182-187) when the call ends there.
CoverRespond ==
    /\ cov.pc = "downloading"
    /\ cdl.pc = "get"
    /\ \E r \in ImageResponses, up_ok \in BOOLEAN :
          /\ cdl' = DlRespond(cdl, r, up_ok)
          /\ dlog' = dlog \o DlRespondEvents(cdl, r, up_ok)
          /\ IF DlUploads(cdl, r, up_ok)
             THEN StoreUpload(DlTarget(cdl))
             ELSE UNCHANGED storeVars
          /\ cov' = CovAfter(cov, cdl', 0,
                             IF DlUploads(cdl, r, up_ok) THEN 1 ELSE 0)
    /\ UNCHANGED <<fetchVars, runVars, metaVars>>

\* lines 89-90, 114: a sleep of the loop is over.
CoverWake ==
    /\ cov.pc = "downloading"
    /\ cdl.pc \in {"retry_after_sleep", "backoff_sleep"}
    /\ cdl' = DlWake(cdl)
    /\ dlog' = dlog \o DlGetEvents(cdl')
    /\ cov' = CovAfter(cov, cdl', Len(DlGetEvents(cdl')), 0)
    /\ UNCHANGED <<fetchVars, storeVars, runVars, metaVars>>

CoverInitialStores == {{}, {CoverId}}

---------------------------------------------------------------------------
(* Chapters: numbers, urls, folder keys.                                   *)

DigitChars == <<"0", "1", "2", "3", "4", "5", "6", "7", "8", "9">>
IsDigit(t) == \E i \in 1..10 : DigitChars[i] = t

RECURSIVE Digits(_)
\* the decimal text of a natural number
Digits(n) ==
    IF n < 10 THEN <<DigitChars[n + 1]>>
    ELSE Digits(n \div 10) \o <<DigitChars[(n % 10) + 1]>>

\* The chapter list of the comic's page as get_chapter_list returns it
\* (lines 242-258): numbers in tenths, ascending.  The site's link of
\* chapter N.M ends in chapter-N-M, that of chapter N in chapter-N.
SiteChapters == <<10, 20, 100, 105>>

ChapterUrl(number) ==
    <<"chapter-">> \o Digits(number \div 10)
        \o (IF number % 10 = 0 THEN <<>> ELSE <<"-">> \o Digits(number % 10))

RECURSIVE LeadingDigits(_)
LeadingDigits(text) ==
    IF text # <<>> /\ IsDigit(Head(text))
    THEN <<Head(text)>> \o LeadingDigits(Tail(text))
    ELSE <<>>

\* lines 213-217: re.search(r'chapter-(\d+)', url).group(1), <<>> when
\* nothing matches
chapter_num(url) ==
    LET at == {i \in 1..Len(url) :
                  /\ url[i] = "chapter-"
                  /\ LeadingDigits(SubSeq(url, i + 1, Len(url))) # <<>>}
        i == CHOOSE j \in at : \A m \in at : j <= m
    IN IF at = {} THEN <<>>
       ELSE LeadingDigits(SubSeq(url, i + 1, Len(url)))

\* str() of the float a chapter number is: "2.0", "2.5", "10.0"
FloatStr(number) ==
    Digits(number \div 10) \o <<".">> \o Digits(number % 10)

\* line 318: f"{title}/chapter-{chapter['number']}"
MainChapterFolder(title, number) ==
    title \o <<"/", "chapter-">> \o FloatStr(number)

\* The images of a chapter's page (line 228): k urls, the j-th one ending
\* in the file 00j.jpg of the chapter's directory.  On the site modelled
\* the first chapter has MaxImages images and every other chapter one.
MaxImages == 2
PageImageCount(number) == IF number = SiteChapters[1] THEN MaxImages ELSE 1
ImageNames == <<"001", "002", "003", "004">>
ImageUrl(chapter_url, j) == chapter_url \o <<"/", ImageNames[j], ".", "jpg">>

RECURSIVE LastSegment(_)
\* url.split('/')[-1]
LastSegment(url) ==
    IF \E i \in 1..Len(url) : url[i] = "/"
    THEN LastSegment(Tail(url)) ELSE url

RECURSIVE UpToDot(_)
\* text.split('.')[0]
UpToDot(text) ==
    IF text = <<>> \/ Head(text) = "." THEN <<>>
    ELSE <<Head(text)>> \o UpToDot(Tail(text))

\* line 100: url.split('/')[-1].split('.')[0]
image_filename(url) == UpToDot(LastSegment(url))

---------------------------------------------------------------------------
(* main, lines 307-336: the start filter and the already-exists filter.    *)

\* The user's answer to the prompt: nothing, or a number (in tenths)
NoStart == -1
StartInputs == {NoStart, 20}

\* line 313 with ">" for ">="
start_filter_exclusive(chapters, start_chapter) ==
    SelectSeq(chapters,
              LAMBDA n : start_chapter = NoStart \/ start_chapter = 0
                            \/ n > start_chapter)

\* lines 312-313: [ch for ch in chapters
\*                 if not start_chapter or ch['number'] >= start_chapter]
\* (not start_chapter: None, or the float 0.0)
start_filter(chapters, start_chapter) ==
    SelectSeq(chapters,
              LAMBDA n : start_chapter = NoStart \/ start_chapter = 0
                            \/ n >= start_chapter)

\* lines 316-319: keep the chapters whose folder does not exist; failed is
\* the set of chapters whose query raises.
exists_filter(chapters, title, st, failed) ==
    SelectSeq(chapters,
              LAMBDA n : ~folder_exists(MainChapterFolder(title, n), st,
                                        n \notin failed))

\* The start filter on its own: any sorted chapter list, any start.
FilterPool == {10, 20, 25, 30}
FilterStarts == {NoStart, 0, 5, 10, 20, 25, 27, 30, 40}

RECURSIVE SortedSeq(_)
\* line 255: sorted(chapters, key=lambda x: x['number'])
SortedSeq(S) ==
    IF S = {} THEN <<>>
    ELSE LET m == CHOOSE x \in S : \A y \in S : x <= y
         IN <<m>> \o SortedSeq(S \ {m})

ApplyStartFilter ==
    /\ ~filt.done
    /\ filt' = [filt EXCEPT !.done = TRUE,
                            !.result = start_filter(filt.chapters, filt.start)]
    /\ UNCHANGED <<fetch, storeVars, coverVars, runVars, metaVars>>

---------------------------------------------------------------------------
(* scrape_chapter_images, lines 211-240, inside download_with_progress,    *)
(* lines 260-271.                                                          *)
(*                                                                         *)
(* fetch_data (requests.get), folder_exists and upload_image block: a      *)
(* pipeline is suspended only inside download_image.                       *)

\* History fields: checked, found: the folder check was made, and said
\* "exists"; masked: the check's query raised while the store held content
\* under the folder; fetched: the page was requested; err: what ended the
\* chapter; urls stays what was collected when the chapter fails;
\* page_gets: the requests sent for the chapter's page; noref: the images
\* whose download_image call gave no reference ("" or None); raised: the
\* last download_image call that ended raised; last_pc: where
\* the download_image call of the image before idx stood when the loop
\* went on to image idx.
PipePending ==
    [st |-> "pending", url |-> <<>>, k |-> 0, idx |-> 0, urls |-> <<>>,
     result |-> <<>>, dl |-> DlIdle, checked |-> FALSE, found |-> FALSE,
     fetched |-> FALSE, err |-> "none", masked |-> FALSE, page_gets |-> 0,
     noref |-> {}, raised |-> FALSE, last_pc |-> "none"]

\* lines 225-228: fetch_data raises, or the page gives its images
PageResults(number) ==
    {[ok |-> TRUE, k |-> PageImageCount(number)], [ok |-> FALSE, k |-> 0]}

\* a chapter that failed is not taken as ended
TerminalUnlessFailed(p) == p.st \in {"skipped", "done"}

\* lines 267-269: scrape_chapter_images has returned (with its list, or
\* with [] from line 221 or from line 240)
Terminal(p) == p.st \in {"skipped", "done", "failed"}

\* line 232: the call of download_image for image idx
PipeDownload(p, idx) ==
    [p EXCEPT !.st = "downloading", !.idx = idx,
              !.dl = DlBegin(Slug, chapter_num(p.url), FALSE,
                             image_filename(ImageUrl(p.url, idx)))]

\* lines 212-232 with the page fetched before the folder is looked at
scrape_start_fetch_first(p, url, found, page) ==
    LET q == [p EXCEPT !.url = url, !.checked = TRUE, !.found = found,
                       !.fetched = TRUE]
    IN IF found THEN [q EXCEPT !.st = "skipped"]
       ELSE IF ~page.ok THEN [q EXCEPT !.st = "failed", !.err = "fetch"]
       ELSE IF page.k = 0 THEN [q EXCEPT !.st = "done"]
       ELSE PipeDownload([q EXCEPT !.k = page.k], 1)

\* lines 212-232: from the entry to the first suspension.  found is the
\* answer of folder_exists for the chapter's folder, page what fetch_data
\* and the extraction give.
scrape_start(p, url, found, page) ==
    LET q == [p EXCEPT !.url = url] IN
    IF chapter_num(url) = <<>>
    THEN [q EXCEPT !.st = "failed", !.err = "ValueError"]
    ELSE IF found
    THEN [q EXCEPT !.st = "skipped", !.checked = TRUE, !.found = TRUE]
    ELSE IF ~page.ok
    THEN [q EXCEPT !.st = "failed", !.err = "fetch", !.checked = TRUE,
                   !.fetched = TRUE, !.page_gets = 1]
    ELSE IF page.k = 0
    THEN [q EXCEPT !.st = "done", !.checked = TRUE, !.fetched = TRUE,
                   !.page_gets = 1]
    ELSE PipeDownload([q EXCEPT !.k = page.k, !.checked = TRUE,
                                !.fetched = TRUE, !.page_gets = 1], 1)

\* lines 232-240 with an image that gave no reference ending the chapter
scrape_continue_strict(p, d) ==
    IF d.pc = "raised" \/ d.ret # "url"
    THEN [p EXCEPT !.st = "failed", !.err = "download", !.result = <<>>,
                   !.dl = DlIdle]
    ELSE IF p.idx < p.k
         THEN PipeDownload([p EXCEPT !.urls = Append(p.urls, d.url),
                                     !.last_pc = d.pc], p.idx + 1)
         ELSE [p EXCEPT !.st = "done", !.urls = Append(p.urls, d.url),
                        !.result = Append(p.urls, d.url), !.dl = DlIdle]

\* lines 232-240: download_image has ended with d.  An exception leaves
\* the loop for line 238 and the chapter returns []; a reference is
\* appended, "" and None are not; then the next image or the return.
scrape_continue(p, d) ==
    IF d.pc = "raised"
    THEN [p EXCEPT !.st = "failed", !.err = "download", !.result = <<>>,
                   !.dl = DlIdle]
    ELSE LET urls == IF d.ret = "url" THEN Append(p.urls, d.url) ELSE p.urls
         IN IF p.idx < p.k
            THEN PipeDownload([p EXCEPT !.urls = urls, !.last_pc = d.pc],
                              p.idx + 1)
            ELSE [p EXCEPT !.st = "done", !.urls = urls, !.result = urls,
                           !.dl = DlIdle]

\* History: how the download_image call of image p.idx ended
PipeNote(p, d) ==
    [p EXCEPT !.noref = IF d.pc = "returned" /\ d.ret # "url"
                        THEN @ \cup {p.idx} ELSE @,
              !.raised = (d.pc = "raised")]

\* the loop goes on to the next image while the call sleeps its back-off
PipeAfterEager(p, d) ==
    IF DlDone(d) \/ d.pc = "backoff_sleep"
    THEN scrape_continue(PipeNote(p, d), d)
    ELSE [p EXCEPT !.dl = d]

\* a pipeline after a step of its download_image
PipeAfter(p, d) ==
    IF DlDone(d) THEN scrape_continue(PipeNote(p, d), d)
    ELSE [p EXCEPT !.dl = d]

\* Semaphore.acquire does not wait
sem_free_always(value) == TRUE

\* asyncio.Semaphore: acquire goes on only while the value is positive
sem_free(value) == value > 0

\* Tasks take the semaphore in the order gather was given them.
IsNextWaiting(ps, i) ==
    /\ i \in DOMAIN ps
    /\ ps[i].st = "pending"
    /\ \A j \in 1..(i - 1) : ps[j].st # "pending"

\* A task that has not started can take the semaphore
CanEnter(ps, value) ==
    sem_free(value) /\ \E i \in DOMAIN ps : IsNextWaiting(ps, i)

\* lines 267-269 on the way out: progress.update(1), then the release
PipeLeave(i, p) ==
    /\ pipes' = [pipes EXCEPT ![i] = p]
    /\ IF Terminal(p)
       THEN progress' = progress + 1 /\ sem' = sem + 1
       ELSE UNCHANGED <<progress, sem>>

\* lines 312-336: the answer to the prompt is in main.start and
\* save_comic_metadata (line 310) has returned; the filters, then the
\* tasks (or the early return of line 323).  SpecMain has the lines before.
MainDispatch ==
    /\ main.pc = "prompt"
    /\ \E failed \in SUBSET {SiteChapters[i] : i \in DOMAIN SiteChapters} :
          LET selected == start_filter(SiteChapters, main.start)
              todo == exists_filter(selected, Slug, store, failed)
          IN /\ main' = [main EXCEPT
                           !.pc = IF todo = <<>> THEN "returned"
                                                 ELSE "gather_start",
                           !.why = IF todo = <<>> THEN "all_exist"
                                                  ELSE "none",
                           !.selected = selected, !.tasks = todo]
             /\ pipes' = [i \in DOMAIN todo |-> PipePending]
    /\ UNCHANGED <<sem, progress, fetchVars, storeVars, coverVars, metaVars>>

\* lines 267-268 and 212-232: a task takes the semaphore and runs to its
\* first suspension, or to its end.  When gather starts the tasks
\* ("gather_start"), each one runs its first step in turn, and none is
\* resumed before every task has either been suspended or has ended: no
\* step before the first suspension yields to the event loop.
PipeEnter ==
    /\ main.pc \in {"gather_start", "gather"}
    /\ sem_free(sem)
    /\ \E i \in DOMAIN pipes, api_ok \in BOOLEAN :
        \E page \in PageResults(main.tasks[i]) :
          /\ IsNextWaiting(pipes, i)
          /\ LET url == ChapterUrl(main.tasks[i])
                 folder == ChapterFolder(Slug, chapter_num(url))
                 found == folder_exists(folder, store, api_ok)
                 hidden == ~api_ok /\ resources(folder, store) # {}
                 p == scrape_start([pipes[i] EXCEPT !.masked = hidden],
                                   url, found, page)
             IN /\ pipes' = [pipes EXCEPT ![i] = p]
                /\ sem' = IF Terminal(p) THEN sem ELSE sem - 1
                /\ progress' = IF Terminal(p) THEN progress + 1 ELSE progress
                /\ main' = IF CanEnter(pipes', sem') THEN main
                            ELSE [main EXCEPT !.pc = "gather"]
    /\ UNCHANGED <<fetchVars, storeVars, coverVars, metaVars>>

\* line 68 is over for the image in hand: its first GET is sent.
PipeRateWake ==
    /\ main.pc = "gather"
    /\ \E i \in DOMAIN pipes :
          /\ pipes[i].dl.pc = "rate_sleep"
          /\ PipeLeave(i, PipeAfter(pipes[i], DlRateWake(pipes[i].dl)))
    /\ UNCHANGED <<main, fetchVars, storeVars, coverVars, metaVars>>

\* lines 85-114 and 232-240: a response; the upload; the next image or the
\* end of the chapter.
PipeRespond ==
    /\ main.pc = "gather"
    /\ \E i \in DOMAIN pipes, r \in ImageResponses, up_ok \in BOOLEAN :
          LET d == pipes[i].dl IN
          /\ d.pc = "get"
          /\ PipeLeave(i, PipeAfter(pipes[i], DlRespond(d, r, up_ok)))
          /\ IF DlUploads(d, r, up_ok) THEN StoreUpload(DlTarget(d))
                                       ELSE UNCHANGED storeVars
    /\ UNCHANGED <<main, fetchVars, coverVars, metaVars>>

\* lines 89-90, 114: a sleep of the loop is over.
PipeWake ==
    /\ main.pc = "gather"
    /\ \E i \in DOMAIN pipes :
          /\ pipes[i].dl.pc \in {"retry_after_sleep", "backoff_sleep"}
          /\ PipeLeave(i, PipeAfter(pipes[i], DlWake(pipes[i].dl)))
    /\ UNCHANGED <<main, fetchVars, storeVars, coverVars, metaVars>>

\* gather returns with the first task that ends
AnyEnded(ps) == \E i \in DOMAIN ps : Terminal(ps[i])

\* line 336: asyncio.gather waits for every task it was given
AllEnded(ps) == \A i \in DOMAIN ps : Terminal(ps[i])

\* line 336: gather returns when every task has ended.
MainGathered ==
    /\ main.pc = "gather"
    /\ AllEnded(pipes)
    /\ main' = [main EXCEPT !.pc = "returned"]
    /\ UNCHANGED <<sem, pipes, progress, fetchVars, storeVars, coverVars,
                   metaVars>>

\* why: what made main return; chapters: what get_chapter_list gave;
\* meta: comic_meta; cover: history of what became of the cover
MainIdle == [pc |-> "idle", start |-> NoStart, selected |-> <<>>,
             tasks |-> <<>>, why |-> "none", chapters |-> <<>>,
             meta |-> <<>>, cover |-> "none"]

\* What an earlier run may have left in the store
InitialStores ==
    {{}, {PublicId(ChapterFolder(Slug, <<"1", "0">>), <<"001">>)}}

---------------------------------------------------------------------------
(* save_comic_metadata, comic_scraper.py lines 123-152, on the comics      *)
(* table of models/comic.py.  A row keeps its id, its slug, its            *)
(* updated_on, its cover_image_url, and "title" for the other scraped      *)
(* columns (title, author, type, status, release, genres, synopsis,        *)
(* rating).  comic_meta is a record with the keys it has.                  *)

MaxSaves == 3

Slugs == {Slug, <<"beta">>}
Titles == {"t1", "t2"}

\* updated_on: the date scraped from the site, or datetime.now()
SiteUpdatedOn == [by |-> "site", at |-> 0]
Now(clock) == [by |-> "now", at |-> clock]

\* lines 131-142: the keys of comic_meta the new row is made of
ComicFields == {"title", "updated_on", "cover_image_url"}

\* comic_meta as scrape_comic_meta leaves it: with the cover's reference
\* (line 203) or without it
Metas ==
    {[title |-> t, updated_on |-> SiteUpdatedOn] : t \in Titles}
      \cup {[title |-> t, updated_on |-> SiteUpdatedOn,
              cover_image_url |-> CoverId] : t \in Titles}

\* what the database does with the call: it works, the query of line 127
\* raises, or the commit of line 146 raises
DbOutcomes == {"ok", "query_fails", "commit_fails"}

NoCall == [outcome |-> "none", slug |-> <<>>, meta |-> <<>>, before |-> {},
           env |-> "ok", escaped |-> FALSE]

\* open: the sessions opened and not closed; last: history of the last
\* call (before: the rows it found; env: what the database did)
DbEmpty == [rows |-> {}, next_id |-> 1, clock |-> 1, open |-> 0,
            calls |-> 0, last |-> NoCall]

\* lines 131-143: Comic(...) of comic_meta; a missing key is a KeyError
NewComic(d, comic_meta, comic_slug) ==
    [id |-> d.next_id, slug |-> comic_slug, title |-> comic_meta.title,
     updated_on |-> comic_meta.updated_on,
     cover_image_url |-> comic_meta.cover_image_url]

\* lines 123-152 with the row added whether the slug is there or not
save_always_add(d, comic_meta, comic_slug, env) ==
    LET raised == \/ env # "ok"
                  \/ ~(ComicFields \subseteq DOMAIN comic_meta)
    IN [rows |-> IF raised THEN d.rows
                 ELSE d.rows \cup {NewComic(d, comic_meta, comic_slug)},
        next_id |-> IF raised THEN d.next_id ELSE d.next_id + 1,
        clock |-> d.clock + 1, open |-> d.open, calls |-> d.calls + 1,
        last |-> [outcome |-> IF raised THEN "rolled_back" ELSE "inserted",
                  slug |-> comic_slug, meta |-> comic_meta,
                  before |-> d.rows, env |-> env, escaped |-> FALSE]]

\* lines 123-152 without the except branch: the exception leaves the
\* function (after the close of line 152) with the row still in the store
save_no_except(d, comic_meta, comic_slug, env) ==
    LET existing == {r \in d.rows : r.slug = comic_slug}
        keyerror == existing = {}
                      /\ ~(ComicFields \subseteq DOMAIN comic_meta)
        raised == env # "ok" \/ keyerror
        added == existing = {} /\ ~keyerror /\ env # "query_fails"
    IN [rows |-> IF added
                 THEN d.rows \cup {NewComic(d, comic_meta, comic_slug)}
                 ELSE IF raised THEN d.rows
                 ELSE {IF r \in existing
                       THEN [r EXCEPT !.updated_on = Now(d.clock)] ELSE r :
                       r \in d.rows},
        next_id |-> IF added THEN d.next_id + 1 ELSE d.next_id,
        clock |-> d.clock + 1, open |-> d.open, calls |-> d.calls + 1,
        last |-> [outcome |-> IF raised THEN "raised"
                              ELSE IF added THEN "inserted" ELSE "updated",
                  slug |-> comic_slug, meta |-> comic_meta,
                  before |-> d.rows, env |-> env, escaped |-> raised]]

\* lines 123-152: the session is opened (line 124) and closed (line 152);
\* every exception of lines 126-146 is caught at line 148 and rolled back,
\* none leaves the function.
save_comic_metadata(d, comic_meta, comic_slug, env) ==
    LET existing == {r \in d.rows : r.slug = comic_slug}
        raised == \/ env = "query_fails"
                  \/ existing = {}
                       /\ ~(ComicFields \subseteq DOMAIN comic_meta)
                  \/ env = "commit_fails"
        opened == d.open + 1
    IN [rows |-> IF raised THEN d.rows
                 ELSE IF existing = {}
                 THEN d.rows \cup {NewComic(d, comic_meta, comic_slug)}
                 ELSE {IF r \in existing
                       THEN [r EXCEPT !.updated_on = Now(d.clock)] ELSE r :
                       r \in d.rows},
        next_id |-> IF ~raised /\ existing = {} THEN d.next_id + 1
                    ELSE d.next_id,
        clock |-> d.clock + 1,
        open |-> opened - 1,
        calls |-> d.calls + 1,
        last |-> [outcome |-> IF raised THEN "rolled_back"
                              ELSE IF existing = {} THEN "inserted"
                              ELSE "updated",
                  slug |-> comic_slug, meta |-> comic_meta,
                  before |-> d.rows, env |-> env, escaped |-> FALSE]]

\* a call of save_comic_metadata
SaveCall ==
    /\ db.calls < MaxSaves
    /\ \E comic_slug \in Slugs, comic_meta \in Metas, env \in DbOutcomes :
          db' = save_comic_metadata(db, comic_meta, comic_slug, env)
    /\ UNCHANGED <<fetchVars, storeVars, coverVars, runVars>>

---------------------------------------------------------------------------
(* main from its start to the tasks, lines 274-336, with scrape_comic_meta *)
(* (lines 190-208).  Before gather main is the only task: it is suspended  *)
(* in fetch_data_with_retry and in the cover's download_image, and runs    *)
(* without a break from one suspension to the next.  The log of the        *)
(* cover's download_image call (dlog) is kept in SpecCover only.           *)

\* extract_comic_meta, lines 155-174: the dict of the page, {} on an error
SiteMeta == [title |-> "t1", updated_on |-> SiteUpdatedOn]
EmptyMeta == <<>>

\* line 203: comic_meta['cover_image_url'] = cover_cloudinary_url
WithCover(comic_meta, url) ==
    [k \in DOMAIN comic_meta \cup {"cover_image_url"} |->
        IF k = "cover_image_url" THEN url ELSE comic_meta[k]]

\* get_chapter_list, lines 242-258: the sorted chapters of the page, or []
ChapterLists == {<<>>, SiteChapters}

\* main returns before the tasks
MainReturn(m, why) == [m EXCEPT !.pc = "returned", !.why = why]

\* lines 312-336: the filters, then the tasks or the return of line 323
Dispatched(m, start, st, failed) ==
    LET selected == start_filter(m.chapters, start)
        todo == exists_filter(selected, Slug, st, failed)
    IN [m EXCEPT !.pc = IF todo = <<>> THEN "returned" ELSE "gather_start",
                 !.why = IF todo = <<>> THEN "all_exist" ELSE "none",
                 !.start = start, !.selected = selected, !.tasks = todo]

\* lines 201-336, from the return of handle_cover_image to gather:
\* cover_ret is what handle_cover_image gave (or that it raised), st the
\* asset store.  An exception of download_image ends scrape_comic_meta at
\* line 206 with None, and main at line 287; a comic_meta without 'title'
\* is the KeyError of line 290, an answer to the prompt that is no number
\* the ValueError of line 308, both caught at line 338.
MainTail(m, cover_ret, st) ==
    \E input_ok \in BOOLEAN, start \in StartInputs, env \in DbOutcomes,
       failed \in SUBSET {m.chapters[i] : i \in DOMAIN m.chapters} :
        LET comic_meta == IF cover_ret = "url" THEN WithCover(m.meta, CoverId)
                          ELSE m.meta
            m1 == [m EXCEPT !.meta = comic_meta]
        IN IF cover_ret = "raised"
           THEN main' = MainReturn(m, "no_meta") /\ UNCHANGED <<db, pipes>>
           ELSE IF "title" \notin DOMAIN comic_meta
           THEN main' = MainReturn(m1, "exception")
                  /\ UNCHANGED <<db, pipes>>
           ELSE IF m.chapters = <<>>
           THEN main' = MainReturn(m1, "no_chapters")
                  /\ UNCHANGED <<db, pipes>>
           ELSE IF ~input_ok
           THEN main' = MainReturn(m1, "exception")
                  /\ UNCHANGED <<db, pipes>>
           ELSE /\ db' = save_comic_metadata(db, comic_meta, Slug, env)
                /\ IF db'.last.escaped
                   THEN main' = MainReturn(m1, "exception")
                          /\ UNCHANGED pipes
                   ELSE /\ main' = Dispatched(m1, start, st, failed)
                        /\ pipes' = [i \in DOMAIN main'.tasks |->
                                        PipePending]

\* lines 276-281: main starts and asks for the comic's page
MainStart ==
    /\ main.pc = "idle"
    /\ fetch' = FetchLoop([fetch EXCEPT !.max_retries = MAX_RETRIES], 0)
    /\ main' = [main EXCEPT !.pc = "landing"]
    /\ UNCHANGED <<filt, storeVars, coverVars, sem, pipes, progress,
                   metaVars>>

\* lines 281-285 and 192-199: a response for the comic's page.  When the
\* page is there: get_chapter_list's soup; then scrape_comic_meta asks for
\* the page once more with fetch_data (fetched), extracts comic_meta
\* (extract_ok), takes the cover's img element (cover_elem: None['src'] is
\* a TypeError) and calls handle_cover_image, which returns at once when
\* the cover is found and else suspends in download_image.
MainLanding ==
    /\ main.pc = "landing"
    /\ FetchRespond
    /\ UNCHANGED <<filt, storeVars, dlog, sem, progress>>
    /\ IF fetch'.pc = "raised"
       THEN /\ main' = MainReturn(main, "landing_fetch")
            /\ UNCHANGED <<cov, cdl, db, pipes>>
       ELSE IF fetch'.pc = "sleep"
       THEN UNCHANGED <<main, cov, cdl, db, pipes>>
       ELSE \E chapters \in ChapterLists, api_ok \in BOOLEAN,
               fetched \in BOOLEAN, extract_ok \in BOOLEAN,
               cover_elem \in BOOLEAN :
              LET m == [main EXCEPT
                          !.chapters = chapters,
                          !.meta = IF extract_ok THEN SiteMeta
                                                 ELSE EmptyMeta]
              IN IF ~fetched
                 THEN /\ main' = MainReturn([main EXCEPT
                                               !.chapters = chapters],
                                            "meta_fetch")
                      /\ UNCHANGED <<cov, cdl, db, pipes>>
                 ELSE IF ~cover_elem
                 THEN /\ main' = MainReturn([m EXCEPT
                                               !.cover = "no_element"],
                                            "no_meta")
                      /\ UNCHANGED <<cov, cdl, db, pipes>>
                 ELSE IF file_exists(Slug, CoverFilename, store, api_ok)
                 THEN /\ cov' = [cov EXCEPT !.calls =
                                   Append(@, CovCall(api_ok, TRUE, "none"))]
                      /\ UNCHANGED cdl
                      /\ MainTail([m EXCEPT !.cover = "exists"], "none",
                                  store)
                 ELSE /\ cov' = [pc |-> "downloading",
                                 calls |-> Append(cov.calls,
                                             CovCall(api_ok, FALSE,
                                                     "pending"))]
                      /\ cdl' = DlBegin(Slug, <<>>, TRUE, <<>>)
                      /\ main' = [m EXCEPT !.pc = "cover"]
                      /\ UNCHANGED <<db, pipes>>

\* line 54: the back-off of fetch_data_with_retry is over
MainLandingWake ==
    /\ main.pc = "landing"
    /\ FetchWake
    /\ UNCHANGED <<filt, storeVars, coverVars, runVars, metaVars>>

\* lines 181-187 and 201-336: after a step of the cover's download_image;
\* when the call has ended, main goes on to its tasks.
MainAfterCover(gets, uploads) ==
    /\ cov' = CovAfter(cov, cdl', gets, uploads)
    /\ IF DlDone(cdl')
       THEN MainTail([main EXCEPT
                        !.cover = IF cdl'.pc = "raised" THEN "raised"
                                  ELSE IF cdl'.ret = "url" THEN "uploaded"
                                  ELSE IF cdl'.ret = "empty"
                                       THEN "upload_failed"
                                  ELSE "none"],
                     CoverReturn(cdl'), store')
       ELSE UNCHANGED <<main, db, pipes>>

\* line 68 is over for the cover: its first GET is sent
MainCoverRateWake ==
    /\ main.pc = "cover"
    /\ cdl.pc = "rate_sleep"
    /\ cdl' = DlRateWake(cdl)
    /\ UNCHANGED <<fetchVars, storeVars, dlog, sem, progress>>
    /\ MainAfterCover(Len(DlGetEvents(cdl')), 0)

\* lines 85-114: a response for the cover, with its upload
MainCoverRespond ==
    /\ main.pc = "cover"
    /\ cdl.pc = "get"
    /\ \E r \in ImageResponses, up_ok \in BOOLEAN :
          /\ cdl' = DlRespond(cdl, r, up_ok)
          /\ IF DlUploads(cdl, r, up_ok) THEN StoreUpload(DlTarget(cdl))
                                         ELSE UNCHANGED storeVars
          /\ MainAfterCover(0, IF DlUploads(cdl, r, up_ok) THEN 1 ELSE 0)
    /\ UNCHANGED <<fetchVars, dlog, sem, progress>>

\* lines 89-90, 114: a sleep of the cover's download_image is over
MainCoverWake ==
    /\ main.pc = "cover"
    /\ cdl.pc \in {"retry_after_sleep", "backoff_sleep"}
    /\ cdl' = DlWake(cdl)
    /\ UNCHANGED <<fetchVars, storeVars, dlog, sem, progress>>
    /\ MainAfterCover(Len(DlGetEvents(cdl')), 0)

\* The metadata store before the run: empty, or with the comic's row
MainInitialDbs ==
    {DbEmpty,
     [save_comic_metadata(DbEmpty, WithCover(SiteMeta, CoverId), Slug, "ok")
        EXCEPT !.last = NoCall, !.calls = 0]}

---------------------------------------------------------------------------
(* The specifications.                                                     *)

FiltIdle == [chapters |-> <<>>, start |-> NoStart, done |-> FALSE,
             result |-> <<>>]

FetchIdleInit == fetch = FetchIdle /\ filt = FiltIdle
StoreEmptyInit == store = {} /\ upcount = <<>> /\ reup = {}
DbIdleInit == db = DbEmpty
CoverIdleInit == cov = CovIdle /\ cdl = DlIdle /\ dlog = <<>>

RunIdleInit ==
    main = MainIdle /\ sem = MAX_CONCURRENT_DOWNLOADS /\ pipes = <<>>
        /\ progress = 0

FetchInit ==
    /\ FetchIdleInit
    /\ StoreEmptyInit
    /\ CoverIdleInit
    /\ RunIdleInit
    /\ DbIdleInit
FetchNext ==
    (FetchCall \/ FetchRespond \/ FetchWake)
        /\ UNCHANGED <<filt, storeVars, coverVars, runVars, metaVars>>

FilterInit ==
    /\ fetch = FetchIdle
    /\ StoreEmptyInit
    /\ CoverIdleInit
    /\ RunIdleInit
    /\ DbIdleInit
    /\ \E S \in SUBSET FilterPool, s \in FilterStarts :
          filt = [FiltIdle EXCEPT !.chapters = SortedSeq(S), !.start = s]
FilterNext == ApplyStartFilter

SaveInit ==
    /\ FetchIdleInit
    /\ StoreEmptyInit
    /\ CoverIdleInit
    /\ RunIdleInit
    /\ DbIdleInit
SaveNext == SaveCall

SpecSave == SaveInit /\ [][SaveNext]_vars

\* line 276: main is called; what earlier runs left in the two stores
MainInit ==
    /\ FetchIdleInit
    /\ CoverIdleInit
    /\ RunIdleInit
    /\ store \in CoverInitialStores
    /\ upcount = <<>>
    /\ reup = {}
    /\ db \in MainInitialDbs
MainNext ==
    \/ MainStart
    \/ MainLanding
    \/ MainLandingWake
    \/ MainCoverRateWake
    \/ MainCoverRespond
    \/ MainCoverWake

SpecMain == MainInit /\ [][MainNext]_vars

SpecFilter == FilterInit /\ [][FilterNext]_vars

SpecFetch == FetchInit /\ [][FetchNext]_vars

CoverInit ==
    /\ FetchIdleInit
    /\ CoverIdleInit
    /\ RunIdleInit
    /\ DbIdleInit
    /\ store \in CoverInitialStores
    /\ upcount = <<>>
    /\ reup = {}
CoverNext == CoverCall \/ CoverRateWake \/ CoverRespond \/ CoverWake

SpecCover == CoverInit /\ [][CoverNext]_vars

\* line 276: the semaphore; line 308: the answer to the prompt; main is
\* at line 312
Init ==
    /\ FetchIdleInit
    /\ CoverIdleInit
    /\ DbIdleInit
    /\ store \in InitialStores
    /\ upcount = <<>>
    /\ reup = {}
    /\ \E s \in StartInputs : main = [MainIdle EXCEPT !.pc = "prompt",
                                                      !.start = s]
    /\ sem = MAX_CONCURRENT_DOWNLOADS
    /\ pipes = <<>>
    /\ progress = 0

Next ==
    \/ MainDispatch
    \/ PipeEnter
    \/ PipeRateWake
    \/ PipeRespond
    \/ PipeWake
    \/ MainGathered

Spec == Init /\ [][Next]_vars

\* The event loop resumes every task that is ready: a sleep ends, a GET is
\* answered (by a response or by an error), a waiter gets the semaphore
\* that was released, and gather returns once its tasks have ended.
\* The run whose prompt was answered with the second chapter of the site.
LiveInit ==
    /\ FetchIdleInit
    /\ CoverIdleInit
    /\ DbIdleInit
    /\ store \in InitialStores
    /\ upcount = <<>>
    /\ reup = {}
    /\ main = [MainIdle EXCEPT !.pc = "prompt", !.start = SiteChapters[2]]
    /\ sem = MAX_CONCURRENT_DOWNLOADS
    /\ pipes = <<>>
    /\ progress = 0

SpecLive == LiveInit /\ [][Next]_vars /\ WF_vars(Next)

---------------------------------------------------------------------------
(* Claims about fetch_data_with_retry.                                     *)

FetchFailures(f) == {i \in 1..Len(f.log) : ~f.log[i].ok}

\* C3: when the first k attempts fail and attempt k+1 succeeds, the call
\* returns the body of that response, has made exactly k+1 requests and has
\* slept RETRY_DELAY*2^0, ..., RETRY_DELAY*2^(k-1) seconds between them.
C3_RetryThenSuccess ==
    (fetch.pc = "returned") =>
        LET k == Len(fetch.log) - 1 IN
        /\ k \in 0..(fetch.max_retries - 1)
        /\ FetchFailures(fetch) = 1..k
        /\ fetch.log[k + 1].ok
        /\ fetch.result = fetch.log[k + 1].val
        /\ fetch.requests = k + 1
        /\ fetch.sleeps = [i \in 1..k |-> RETRY_DELAY * (2 ^ (i - 1))]

\* Two failures, then success at the third attempt of the 3-attempt call.
C3_Witness ==
    /\ fetch.pc = "returned"
    /\ fetch.max_retries = MAX_RETRIES
    /\ Len(fetch.log) = 3
    /\ fetch.sleeps = <<RETRY_DELAY, 2 * RETRY_DELAY>>
    /\ fetch.result = "page_b"

\* C4: when every attempt fails the call makes exactly max_retries (3)
\* requests, sleeps only between attempts (not after the last failure) and
\* raises the error of the final attempt; no call ever makes a 4th request.
C4_ExhaustedRaises ==
    /\ fetch.requests <= MAX_RETRIES
    /\ fetch.requests <= fetch.max_retries
    /\ (fetch.pc = "raised") =>
          /\ fetch.requests = fetch.max_retries
          /\ Len(fetch.log) = fetch.max_retries
          /\ FetchFailures(fetch) = 1..fetch.max_retries
          /\ Len(fetch.sleeps) = fetch.max_retries - 1
          /\ fetch.result = fetch.log[fetch.max_retries].val
    /\ (FetchFailures(fetch) = 1..fetch.max_retries /\ fetch.max_retries > 0)
          => fetch.pc = "raised"

C4_Witness ==
    /\ fetch.pc = "raised"
    /\ fetch.max_retries = MAX_RETRIES
    /\ fetch.requests = 3
    /\ fetch.log[1].val = "conn_error"
    /\ fetch.log[3].val = "http_error"
    /\ fetch.result = "http_error"

---------------------------------------------------------------------------
(* Claims about download_image, on the log of the cover's download.        *)

Pos(log, e) == {i \in 1..Len(log) : log[i].e = e}
Count(log, e) == Cardinality(Pos(log, e))

\* C5: a 429 response is followed by a suspension for the Retry-After
\* value and a re-attempt that is not counted against the 3 attempts: a
\* call that has seen at least one 429 and at most 2 transport failures
\* has not ended without a 2xx response (and the upload that follows it).
C5_429NotCounted ==
    /\ \A i \in Pos(dlog, "retry_after_sleep") :
          DlDone(cdl) => (i < Len(dlog) /\ dlog[i + 1].e = "get")
    /\ (DlDone(cdl) /\ Count(dlog, "429") >= 1 /\ Count(dlog, "error") <= 2)
          => Count(dlog, "ok") = 1

\* C6, as claimed: every GET of a call has its own rate-limit suspension:
\* before the n-th GET the call has slept the wrapper's sleep n times.
C6_EveryGetRateLimited ==
    \A i \in Pos(dlog, "get") :
        Cardinality({j \in Pos(dlog, "rate_sleep") : j < i})
            >= Cardinality({j \in Pos(dlog, "get") : j <= i})

\* C6, amended: a download_image call sleeps the rate-limit suspension, of
\* MIN_DELAY to MAX_DELAY seconds, exactly once, before its first GET; every
\* later GET of the call directly follows a Retry-After or a back-off sleep
\* and no further rate-limit suspension.
C6_RateLimitOncePerCall ==
    (cdl.pc # "idle") =>
        /\ Pos(dlog, "rate_sleep") = {1}
        /\ dlog[1].secs \in MIN_DELAY..MAX_DELAY
        /\ \A i \in Pos(dlog, "get") :
              /\ i > 1
              /\ IF i = 2 THEN dlog[1].e = "rate_sleep"
                 ELSE dlog[i - 1].e \in {"retry_after_sleep", "backoff_sleep"}
        /\ (cdl.pc # "rate_sleep") => Count(dlog, "get") >= 1

\* A call that sent three GETs: after the wrapper's sleep, after a back-off
\* and after a Retry-After sleep.
C6_Witness ==
    /\ cdl.pc = "returned"
    /\ Count(dlog, "get") = 3
    /\ Count(dlog, "backoff_sleep") = 1
    /\ Count(dlog, "retry_after_sleep") = 1
    /\ Count(dlog, "upload") = 1

\* C17: against a server that answers 429 to every GET, a download_image
\* call never ends: a call all of whose answers were 429 has neither
\* returned nor raised.
C17_429NeverEnds ==
    (cdl.pc # "idle" /\ Count(dlog, "ok") = 0 /\ Count(dlog, "error") = 0)
        => ~DlDone(cdl)

---------------------------------------------------------------------------
(* Claims about handle_cover_image.                                        *)

---------------------------------------------------------------------------
(* Claims about main's start filter.                                       *)

Range(seq) == {seq[i] : i \in DOMAIN seq}
Ascending(seq) == \A i, j \in DOMAIN seq : i < j => seq[i] < seq[j]

\* C9: for a sorted chapter list and a start s (0 included), the chapters
\* kept are exactly those with number >= s, in their order; all of them
\* when no start is given.
C9_StartFilterInclusive ==
    filt.done =>
        /\ Range(filt.result) =
              {n \in Range(filt.chapters) :
                  filt.start = NoStart \/ n >= filt.start}
        /\ Ascending(filt.result)
        /\ Len(filt.result) = Cardinality(Range(filt.result))

\* [1.0, 2.0, 2.5, 3.0] with start 2.0 gives [2.0, 2.5, 3.0]
C9_Witness ==
    /\ filt.done
    /\ filt.chapters = <<10, 20, 25, 30>>
    /\ filt.start = 20
    /\ filt.result = <<20, 25, 30>>

---------------------------------------------------------------------------
(* Claims about the chapter pipelines.                                     *)

Holders == {i \in DOMAIN pipes : pipes[i].st = "downloading"}

\* C1: at most MAX_CONCURRENT_DOWNLOADS (3) chapter pipelines hold the
\* semaphore at any time, whatever the number of tasks; the semaphore's
\* value is what the holders leave of it.
C1_GateBound ==
    /\ Cardinality(Holders) <= MAX_CONCURRENT_DOWNLOADS
    /\ sem = MAX_CONCURRENT_DOWNLOADS - Cardinality(Holders)

\* Four tasks: three hold the semaphore, the fourth waits for it.
C1_Witness ==
    /\ Len(main.tasks) = 4
    /\ Cardinality(Holders) = MAX_CONCURRENT_DOWNLOADS
    /\ pipes[4].st = "pending"
    /\ sem = 0

\* C2: a pipeline whose folder check finds the chapter's prefix non-empty
\* ends SKIPPED having fetched no page, started no download and uploaded
\* nothing; and a page is fetched only after the check has said "absent".
C2_SkipBeforeNetwork ==
    \A i \in DOMAIN pipes :
        /\ pipes[i].found =>
              /\ pipes[i].st = "skipped"
              /\ ~pipes[i].fetched
              /\ pipes[i].idx = 0
              /\ pipes[i].dl = DlIdle
              /\ pipes[i].urls = <<>>
              /\ pipes[i].result = <<>>
        /\ pipes[i].fetched => (pipes[i].checked /\ ~pipes[i].found)
        /\ (pipes[i].st = "skipped") => pipes[i].found

\* A chapter skipped while another one is downloading.
C2_Witness ==
    \E i, j \in DOMAIN pipes :
        /\ pipes[i].st = "skipped"
        /\ pipes[i].found
        /\ pipes[j].st = "downloading"

\* C7: within a run no public id is uploaded while the store holds it, and
\* none is uploaded twice, also for two chapters with one folder key
\* (stated for the runs in which every existence query answered).
C7_NoReupload ==
    (\A i \in DOMAIN pipes : ~pipes[i].masked) =>
        /\ reup = {}
        /\ \A id \in DOMAIN upcount : upcount[id] <= 1

\* C10: when the download of an image fails for good, the other images of
\* the chapter are still attempted and the references collected are kept
\* as the chapter's result.
C10_ImageFailureContained ==
    \A i \in DOMAIN pipes :
        (pipes[i].err = "download") =>
            /\ pipes[i].idx = pipes[i].k
            /\ pipes[i].result = pipes[i].urls

\* the terminal states of a chapter: SKIPPED, DONE, FAILED
Ended == {"skipped", "done", "failed"}

\* C13: whatever subset of the dispatched chapters fails (at the page
\* fetch, the extraction or an image download), the run gets past gather,
\* and it is past gather only when every dispatched chapter is in a
\* terminal state of its own: the siblings of a failed chapter are still
\* run to their ends.
C13_FailureIsolated ==
    /\ [](main.pc = "returned" =>
            \A i \in DOMAIN pipes : pipes[i].st \in Ended)
    /\ <>(main.pc = "returned")

\* The run is over with a chapter that failed at its page, one that failed
\* at an image, and a sibling that is done with its images.
C13_Witness ==
    /\ main.pc = "returned"
    /\ \E i, j, l \in DOMAIN pipes :
          /\ pipes[i].err = "fetch"
          /\ pipes[j].err = "download"
          /\ pipes[l].st = "done"
          /\ pipes[l].result # <<>>

\* C14: the progress count is the number of chapter pipelines that are in
\* a terminal state, succeeded, skipped or failed alike (so each one is
\* counted once, in the step that ends it); it never exceeds the number of
\* dispatched chapters and equals it when the run is past gather.
C14_ProgressCount ==
    /\ progress = Cardinality({i \in DOMAIN pipes : pipes[i].st \in Ended})
    /\ progress <= Len(main.tasks)
    /\ (main.pc = "returned" /\ main.tasks # <<>>) =>
          progress = Len(main.tasks)

\* Four chapters counted: one skipped, one failed, one done.
C14_Witness ==
    /\ main.pc = "returned"
    /\ progress = 4
    /\ \E i, j, l \in DOMAIN pipes :
          /\ pipes[i].st = "skipped"
          /\ pipes[j].st = "failed"
          /\ pipes[l].st = "done"

\* the public id image j of pipeline p is uploaded under
ImageRef(p, j) ==
    PublicId(ChapterFolder(Slug, chapter_num(p.url)),
             image_filename(ImageUrl(p.url, j)))

\* the images of p whose download_image call has ended
Settled(p) == IF p.st = "downloading" THEN p.idx - 1 ELSE p.idx

\* the references of images 1..n of p without those in skip, in order
RECURSIVE RefsWithout(_, _, _)
RefsWithout(p, n, skip) ==
    IF n = 0 THEN <<>>
    ELSE IF n \in skip THEN RefsWithout(p, n - 1, skip)
    ELSE Append(RefsWithout(p, n - 1, skip), ImageRef(p, n))

\* C16: an image whose publishing gives no reference does not end the
\* chapter: unless a download raises, the chapter goes through all its
\* images, and what it collects (and returns) is the references of the
\* images that were published, in source order, without the others.  For
\* the chapter whose folder no other chapter shares, these are the images
\* of the chapter that the store holds.
C16_UploadFailureSkipped ==
    \A i \in DOMAIN pipes :
        LET p == pipes[i] IN
        /\ (p.st = "downloading" \/ (p.st = "done" /\ p.k > 0)) =>
              p.urls = RefsWithout(p, Settled(p), p.noref)
        /\ (p.st = "done") => (p.idx = p.k /\ p.result = p.urls)
        /\ (p.st = "failed" /\ p.err = "download") => p.raised
        /\ (p.noref # {} /\ ~p.raised) => p.st \in {"downloading", "done"}
        /\ (main.tasks[i] = SiteChapters[1] /\ p.st = "done") =>
              Range(p.result) = {ImageRef(p, j) : j \in 1..p.k} \cap store

\* The first image of a chapter of two was not published, the second was,
\* and the chapter's result is the second image's reference alone.
C16_Witness ==
    \E i \in DOMAIN pipes :
        /\ pipes[i].st = "done"
        /\ pipes[i].k = 2
        /\ pipes[i].noref = {1}
        /\ pipes[i].result = <<ImageRef(pipes[i], 2)>>
        /\ ImageRef(pipes[i], 1) \notin store

\* C18: a chapter is FAILED for its page only after MAX_RETRIES (3)
\* requests for the page have failed.
C18_PageFetchRetried ==
    \A i \in DOMAIN pipes :
        (pipes[i].err = "fetch") => pipes[i].page_gets = MAX_RETRIES

\* C19: for every dispatched chapter the folder key of main's filter is
\* the key of the pipeline's check and of the uploads; and no chapter is
\* dispatched while the store holds images under its upload folder.
C19_SameFolderKey ==
    (main.pc = "gather_start" /\ \A i \in DOMAIN pipes : pipes[i] = PipePending)
        => \A i \in DOMAIN main.tasks :
              LET url == ChapterUrl(main.tasks[i])
                  folder == ChapterFolder(Slug, chapter_num(url))
              IN /\ MainChapterFolder(Slug, main.tasks[i]) = folder
                 /\ resources(folder \o <<"/">>, store) = {}

\* the download_image calls that have not ended
InFlight == {i \in DOMAIN pipes : pipes[i].dl.pc # "idle"}

\* C20: a pipeline has a download_image call open only while it is
\* downloading, and the call is the one for image idx of its page; the
\* loop went on to image idx only when the call for image idx - 1 had
\* returned; at most MAX_CONCURRENT_DOWNLOADS calls are open in the run.
C20_ImagesSequential ==
    /\ \A i \in DOMAIN pipes :
          LET p == pipes[i] IN
          /\ (p.st = "downloading") =>
                /\ p.idx \in 1..p.k
                /\ p.dl.pc \in {"rate_sleep", "get", "retry_after_sleep",
                                 "backoff_sleep"}
                /\ p.dl.file = image_filename(ImageUrl(p.url, p.idx))
                /\ Len(p.urls) + Cardinality(p.noref) = p.idx - 1
          /\ (p.st # "downloading") => p.dl = DlIdle
          /\ (p.idx >= 2) => p.last_pc = "returned"
    /\ Cardinality(InFlight) <= MAX_CONCURRENT_DOWNLOADS

\* Three GETs in flight, one of them for the second image of its chapter,
\* while the fourth chapter waits.
C20_Witness ==
    /\ Cardinality({i \in DOMAIN pipes : pipes[i].dl.pc = "get"})
          = MAX_CONCURRENT_DOWNLOADS
    /\ \E i \in DOMAIN pipes : pipes[i].idx = 2 /\ pipes[i].dl.pc = "get"
    /\ \E i \in DOMAIN pipes : pipes[i].st = "pending"

---------------------------------------------------------------------------
(* Claims about save_comic_metadata.                                       *)

OneRowPerSlug(rows) ==
    \A r1, r2 \in rows : (r1.slug = r2.slug) => (r1 = r2)

\* the rows of slug among rows
Of(rows, slug) == {r \in rows : r.slug = slug}

\* r is the row save_comic_metadata makes of comic_meta and comic_slug
IsRowOf(r, comic_meta, comic_slug) ==
    /\ r.slug = comic_slug
    /\ r.title = comic_meta.title
    /\ r.updated_on = comic_meta.updated_on
    /\ ("cover_image_url" \in DOMAIN comic_meta) =>
          r.cover_image_url = comic_meta.cover_image_url

\* after differs from before at most in the updated_on of slug's row
OnlyUpdatedOnChanged(before, after, slug) ==
    /\ before \ Of(before, slug) = after \ Of(after, slug)
    /\ Cardinality(Of(after, slug)) = Cardinality(Of(before, slug))
    /\ \A r \in Of(before, slug) :
          \E r2 \in Of(after, slug) :
              [r EXCEPT !.updated_on = r2.updated_on] = r2

---------------------------------------------------------------------------
(* Claims about main before the tasks.                                     *)

\* C11: main returns without tasks only for a failed fetch of the comic's
\* page, for an empty chapter list, or with nothing left to scrape; a
\* cover that has no element on the page, whose download failed or whose
\* upload failed never makes it return.
C11_OnlyFetchAndEmptyListFatal ==
    /\ (main.pc = "returned" /\ main.tasks = <<>>) =>
          main.why \in {"landing_fetch", "meta_fetch", "no_chapters",
                        "all_exist"}
    /\ (main.cover \in {"no_element", "raised", "upload_failed"}
          /\ main.chapters # <<>> /\ main.pc = "returned")
            => main.why = "all_exist"

\* the last call of save_comic_metadata failed: the query or the commit
\* raised, or a row was to be made of a comic_meta that lacks a key
SaveFailed ==
    /\ db.last.outcome # "none"
    /\ \/ db.last.env # "ok"
       \/ /\ Of(db.last.before, db.last.slug) = {}
          /\ ~(ComicFields \subseteq DOMAIN db.last.meta)

\* C15: when save_comic_metadata fails, the call is rolled back, the rows
\* are what they were, the session is closed, no exception reaches main,
\* and main goes on: the chapters are filtered and the tasks made (or no
\* chapter is left to scrape).
C15_SaveFailureContained ==
    SaveFailed =>
        /\ db.last.outcome = "rolled_back"
        /\ db.rows = db.last.before
        /\ db.open = 0
        /\ ~db.last.escaped
        /\ main.why \in {"none", "all_exist"}
        /\ main.selected = start_filter(main.chapters, main.start)
        /\ \A i \in DOMAIN main.tasks :
              \E j \in DOMAIN main.selected :
                  main.tasks[i] = main.selected[j]
        /\ (main.selected # <<>> /\ main.pc = "returned") =>
              main.why = "all_exist"
        /\ (main.pc = "gather_start") =>
              /\ main.tasks # <<>>
              /\ pipes = [i \in DOMAIN main.tasks |-> PipePending]

\* The cover was found in the asset store and skipped, comic_meta has no
\* cover_image_url, the store has no row of the comic: the call failed and
\* the four chapters are dispatched.
C15_Witness ==
    /\ SaveFailed
    /\ main.cover = "exists"
    /\ "cover_image_url" \notin DOMAIN db.last.meta
    /\ db.last.env = "ok"
    /\ db.rows = {}
    /\ main.pc = "gather_start"
    /\ Len(pipes) = 4

---------------------------------------------------------------------------
(* Claims about the folder check of a pipeline.                            *)

\* the assets the store holds in the folder of pipeline p's chapter
OwnAssets(p) ==
    resources(ChapterFolder(Slug, chapter_num(p.url)) \o <<"/">>, store)

\* C21: a pipeline is SKIPPED only when the store holds an asset in the
\* folder of its own chapter; assets of a chapter whose folder key only
\* starts with this chapter's key (chapter-10 for chapter-1) do not make
\* it skip.
C21_SkipOnlyOwnAssets ==
    \A i \in DOMAIN pipes :
        (pipes[i].st = "skipped") => OwnAssets(pipes[i]) # {}

===========================================================================
